---- MODULE Spec2Model ----
(***************************************************************************)
(* The inode layer of the cs-444 file system: block I/O on the disk image  *)
(* (block.c), the inode allocator ialloc (inode.c) and the in-core inode   *)
(* cache iget / iput with read_inode / write_inode, as inode.c documents   *)
(* them.                                                                   *)
(***************************************************************************)
EXTENDS Integers, Sequences, FiniteSets, TLC

VARIABLES
    disk,       \* the image: block number -> block (BLOCK_SIZE bytes)
    incore,     \* static struct inode incore[MAX_SYS_OPEN_FILES]
    op,         \* name of the last call
    arg,        \* its argument (inode number, or index of the slot passed)
    ret,        \* its return value (ialloc: number or -1; iget: slot or NULL)
    io,         \* the bread / bwrite calls it made, in order
    fault,      \* whether one of its transfers was not a full block
    allocated,  \* the inode numbers ialloc has returned so far, in order
    held,       \* per inode number: successful iget calls minus the iput
                \* calls on the slot that held it
    flushed,    \* per inode number: the on-disk fields its slot held at
                \* the last iput that released it
    race        \* ialloc invocations in progress, when they may interleave

vars == <<disk, incore, op, arg, ret, io, fault, allocated, held, flushed,
          race>>

----------------------------------------------------------------------------
(* Program constants *)

BLOCK_SIZE == 4096
INODE_SIZE == 64
INODE_FIRST_BLOCK == 3
INODE_PTR_COUNT == 16
FREE_INODE_BLOCK_NUM == 1
INODES_PER_BLOCK == BLOCK_SIZE \div INODE_SIZE
\* the inode blocks of the image ("there are 4 of them")
INODE_BLOCKS == 4
\* the blocks of the image
NUM_OF_BLOCKS == 1024

\* NULL, as an index into incore
NULL == 0 - 1

(* Bounds of the model *)

\* slots of the in-core pool (MAX_SYS_OPEN_FILES is 64 in the source; the
\* pool is scaled down so that it can fill up)
MaxSlots == 2
\* largest reference count a slot is driven to
MaxRef == 2
\* successful ialloc calls in one run
MaxAlloc == 2

Slots == 0 .. (MaxSlots - 1)

\* inode numbers handed to iget: two that share inode block 3, one in block 4
Inums == {0, 1, INODES_PER_BLOCK}

\* unsigned char and unsigned short count modulo these
U8 == 256
U16 == 65536
\* the largest value of an unsigned int field in the model (TLC's integers
\* end here; no reference count or size of the model comes near the 2^32 at
\* which the C type wraps)
MaxUInt == (2 ^ 30 - 1) * 2 + 1

----------------------------------------------------------------------------
(* block.c *)

Offsets == 0 .. (BLOCK_SIZE - 1)

\* A block is BLOCK_SIZE bytes. It is kept as the byte most of it holds
\* (fill) and the bytes that differ from it (at: offset -> byte), so that two
\* blocks with the same bytes are the same value.
Filled(byte) == [fill |-> byte, at |-> << >>]
ZeroBlock == Filled(0)

\* block[o]
Byte(block, o) == IF o \in DOMAIN block.at THEN block.at[o] ELSE block.fill

\* block[o] = v
Put(block, o, v) ==
    IF v = block.fill
    THEN IF o \in DOMAIN block.at
         THEN [block EXCEPT
                 !.at = [k \in (DOMAIN block.at) \ {o} |-> block.at[k]]]
         ELSE block
    ELSE IF o \in DOMAIN block.at
         THEN [block EXCEPT !.at[o] = v]
         ELSE [block EXCEPT !.at = (o :> v) @@ block.at]

\* the first n bytes of block a followed by the rest of block b
Splice(a, b, n) ==
    LET dom == {o \in 0 .. (n - 1) : Byte(a, o) # b.fill}
                  \cup {o \in DOMAIN b.at : o >= n}
    IN  [fill |-> b.fill,
         at |-> [o \in dom |-> IF o < n THEN Byte(a, o) ELSE b.at[o]]]

\* the block of image d at block_num (bytes never written read as 0)
BlockAt(d, block_num) ==
    IF block_num \in DOMAIN d THEN d[block_num] ELSE ZeroBlock

\* bread(block_num, block): read() transfers nread bytes (BLOCK_SIZE when it
\* succeeds, fewer on a short read, 0 on an error) into the caller's buffer
\* buf; its return value is ignored and the buffer is returned.
bread(d, block_num, buf, nread) ==
    LET src == BlockAt(d, block_num)
    IN  IF nread >= BLOCK_SIZE THEN src ELSE Splice(src, buf, nread)

\* bwrite(block_num, block): write() transfers nwritten bytes of block to the
\* image; its return value is ignored. The result is the new image.
bwrite(d, block_num, block, nwritten) ==
    LET old == BlockAt(d, block_num)
        new == IF nwritten >= BLOCK_SIZE THEN block
               ELSE Splice(block, old, nwritten)
    IN  [b \in (DOMAIN d) \cup {block_num} |-> IF b = block_num THEN new ELSE d[b]]

----------------------------------------------------------------------------
(* free.c: the bitmap of a block, lowest bit of lowest byte first *)

Pow2(k) == 2 ^ k

\* lowest clear bit of a byte, -1 if there is none
find_low_clear_bit(x) ==
    IF x = U8 - 1 THEN 0 - 1
    ELSE CHOOSE i \in 0 .. 7 :
            /\ (x \div Pow2(i)) % 2 = 0
            /\ \A j \in 0 .. (i - 1) : (x \div Pow2(j)) % 2 = 1

\* index of the first 0 bit of the block, -1 if every bit is 1: the scan
\* for the first byte that is not 0xff, over the bytes listed in block.at and,
\* when the filling byte is not 0xff, the first offset that is not listed
find_free(block) ==
    LET listed == DOMAIN block.at
        gap == IF block.fill = U8 - 1 THEN {}
               ELSE {o \in 0 .. Cardinality(listed) :
                        o \notin listed /\ o < BLOCK_SIZE}
        open == {o \in listed : block.at[o] # U8 - 1} \cup gap
    IN  IF open = {} THEN 0 - 1
        ELSE LET i == CHOOSE m \in open : \A k \in open : m <= k
             IN  i * 8 + find_low_clear_bit(Byte(block, i))

\* set_free(block, num, set): bit num of the block becomes set
set_free(block, num, set) ==
    LET byte_num == num \div 8
        bit_num == num % 8
        old == Byte(block, byte_num)
        cleared == old - ((old \div Pow2(bit_num)) % 2) * Pow2(bit_num)
    IN  Put(block, byte_num, cleared + set * Pow2(bit_num))

----------------------------------------------------------------------------
(* inode.c: ialloc *)

\* ialloc that forgets to write the bitmap block back
ialloc_no_write(d, stack, nread, nwritten) ==
    LET inode_map == bread(d, FREE_INODE_BLOCK_NUM, stack, nread)
    IN  [ret |-> find_free(inode_map), disk |-> d,
         io |-> << <<"bread", FREE_INODE_BLOCK_NUM>> >>]

\* ialloc that returns the bit after the one it marks
ialloc_off_by_one(d, stack, nread, nwritten) ==
    LET inode_map == bread(d, FREE_INODE_BLOCK_NUM, stack, nread)
        low_free_bit == find_free(inode_map)
    IN  IF low_free_bit # 0 - 1
        THEN [ret |-> low_free_bit + 1,
              disk |-> bwrite(d, FREE_INODE_BLOCK_NUM,
                              set_free(inode_map, low_free_bit, 1), nwritten),
              io |-> << <<"bread", FREE_INODE_BLOCK_NUM>>,
                        <<"bwrite", FREE_INODE_BLOCK_NUM>> >>]
        ELSE [ret |-> low_free_bit, disk |-> d,
              io |-> << <<"bread", FREE_INODE_BLOCK_NUM>> >>]

\* ialloc that writes the bitmap block back whether or not it found a bit
ialloc_always_write(d, stack, nread, nwritten) ==
    LET inode_map == bread(d, FREE_INODE_BLOCK_NUM, stack, nread)
        low_free_bit == find_free(inode_map)
        marked == IF low_free_bit # 0 - 1
                  THEN set_free(inode_map, low_free_bit, 1) ELSE inode_map
    IN  [ret |-> low_free_bit,
         disk |-> bwrite(d, FREE_INODE_BLOCK_NUM, marked, nwritten),
         io |-> << <<"bread", FREE_INODE_BLOCK_NUM>>,
                   <<"bwrite", FREE_INODE_BLOCK_NUM>> >>]

\* ialloc(): inode_map is an uninitialised stack buffer (stack), nread and
\* nwritten are what read() and write() transfer. The result is the return
\* value, the new image and the block I/O performed.
\* an ialloc that marks the inode it returns free where in use is due
ialloc_marks_free(d, stack, nread, nwritten) ==
    LET inode_map == bread(d, FREE_INODE_BLOCK_NUM, stack, nread)
        low_free_bit == find_free(inode_map)
    IN  IF low_free_bit # 0 - 1
        THEN [ret |-> low_free_bit,
              disk |-> bwrite(d, FREE_INODE_BLOCK_NUM,
                              set_free(inode_map, low_free_bit, 0), nwritten),
              io |-> << <<"bread", FREE_INODE_BLOCK_NUM>>,
                        <<"bwrite", FREE_INODE_BLOCK_NUM>> >>]
        ELSE [ret |-> low_free_bit, disk |-> d,
              io |-> << <<"bread", FREE_INODE_BLOCK_NUM>> >>]

\* an ialloc that writes the marked map to the block after the inode map
ialloc_wrong_block(d, stack, nread, nwritten) ==
    LET inode_map == bread(d, FREE_INODE_BLOCK_NUM, stack, nread)
        low_free_bit == find_free(inode_map)
    IN  IF low_free_bit # 0 - 1
        THEN [ret |-> low_free_bit,
              disk |-> bwrite(d, FREE_INODE_BLOCK_NUM + 1,
                              set_free(inode_map, low_free_bit, 1), nwritten),
              io |-> << <<"bread", FREE_INODE_BLOCK_NUM>>,
                        <<"bwrite", FREE_INODE_BLOCK_NUM + 1>> >>]
        ELSE [ret |-> low_free_bit, disk |-> d,
              io |-> << <<"bread", FREE_INODE_BLOCK_NUM>> >>]

ialloc(d, stack, nread, nwritten) ==
    LET inode_map == bread(d, FREE_INODE_BLOCK_NUM, stack, nread)
        low_free_bit == find_free(inode_map)
    IN  IF low_free_bit # 0 - 1
        THEN [ret |-> low_free_bit,
              disk |-> bwrite(d, FREE_INODE_BLOCK_NUM,
                              set_free(inode_map, low_free_bit, 1), nwritten),
              io |-> << <<"bread", FREE_INODE_BLOCK_NUM>>,
                        <<"bwrite", FREE_INODE_BLOCK_NUM>> >>]
        ELSE [ret |-> low_free_bit,
              disk |-> d,
              io |-> << <<"bread", FREE_INODE_BLOCK_NUM>> >>]

\* ialloc from the statement after bread on: inode_map is the buffer that
\* bread filled. This variant does not write the marked map.
ialloc_after_read_no_write(d, inode_map, nwritten) ==
    [ret |-> find_free(inode_map), disk |-> d, io |-> << >>]

ialloc_after_read(d, inode_map, nwritten) ==
    LET low_free_bit == find_free(inode_map)
    IN  IF low_free_bit # 0 - 1
        THEN [ret |-> low_free_bit,
              disk |-> bwrite(d, FREE_INODE_BLOCK_NUM,
                              set_free(inode_map, low_free_bit, 1), nwritten),
              io |-> << <<"bwrite", FREE_INODE_BLOCK_NUM>> >>]
        ELSE [ret |-> low_free_bit, disk |-> d, io |-> << >>]

----------------------------------------------------------------------------
(* pack.c: fixed-width unsigned integers in a block buffer, big-endian *)

read_u8(block, addr) == Byte(block, addr)
read_u16(block, addr) == Byte(block, addr) * U8 + Byte(block, addr + 1)
read_u32(block, addr) ==
    ((Byte(block, addr) * U8 + Byte(block, addr + 1)) * U8
        + Byte(block, addr + 2)) * U8 + Byte(block, addr + 3)

write_u8(block, addr, value) == Put(block, addr, value % U8)
write_u16(block, addr, value) ==
    Put(Put(block, addr, (value \div U8) % U8), addr + 1, value % U8)
write_u32(block, addr, value) ==
    Put(Put(Put(Put(block, addr, (value \div (U8 * U8 * U8)) % U8),
                addr + 1, (value \div (U8 * U8)) % U8),
            addr + 2, (value \div U8) % U8),
        addr + 3, value % U8)

----------------------------------------------------------------------------
(* inode.c: struct inode and the in-core pool *)

PtrIndex == 1 .. INODE_PTR_COUNT

\* static struct inode incore[MAX_SYS_OPEN_FILES] = {0}
ZeroInode ==
    [size |-> 0, owner_id |-> 0, permissions |-> 0, flags |-> 0,
     link_count |-> 0, block_ptr |-> [i \in PtrIndex |-> 0],
     ref_count |-> 0, inode_num |-> 0]

\* the fields of a struct inode that have a place in the on-disk record
OnDisk(in) ==
    [size |-> in.size, owner_id |-> in.owner_id,
     permissions |-> in.permissions, flags |-> in.flags,
     link_count |-> in.link_count, block_ptr |-> in.block_ptr]

\* find_incore_free that falls back on the first slot when none is free
find_incore_free_first(inc) ==
    LET free == {i \in DOMAIN inc : inc[i].ref_count = 0}
    IN  IF free = {} THEN 0
        ELSE CHOOSE i \in free : \A j \in free : i <= j

\* first slot with ref_count 0, NULL if every slot is in use
find_incore_free(inc) ==
    LET free == {i \in DOMAIN inc : inc[i].ref_count = 0}
    IN  IF free = {} THEN NULL
        ELSE CHOOSE i \in free : \A j \in free : i <= j

\* find_incore that takes the inode number for the index of the slot
find_incore_by_index(inc, inode_num) ==
    IF inode_num \in DOMAIN inc /\ inc[inode_num].ref_count # 0
    THEN inode_num ELSE NULL

\* first slot with a non-zero ref_count and this inode_num, NULL if none
find_incore(inc, inode_num) ==
    LET hit == {i \in DOMAIN inc :
                    inc[i].ref_count # 0 /\ inc[i].inode_num = inode_num}
    IN  IF hit = {} THEN NULL
        ELSE CHOOSE i \in hit : \A j \in hit : i <= j

----------------------------------------------------------------------------
(* inode.c: inode number -> block and byte offset; read_inode, write_inode *)

\* a mapping that gives the offset in inodes where bytes are due
locate_offset_in_inodes(inode_num) ==
    LET block_num == inode_num \div INODES_PER_BLOCK + INODE_FIRST_BLOCK
        block_offset == inode_num % INODES_PER_BLOCK
    IN  [block_num |-> block_num, block_offset_bytes |-> block_offset]

locate(inode_num) ==
    LET block_num == inode_num \div INODES_PER_BLOCK + INODE_FIRST_BLOCK
        block_offset == inode_num % INODES_PER_BLOCK
        block_offset_bytes == block_offset * INODE_SIZE
    IN  [block_num |-> block_num, block_offset_bytes |-> block_offset_bytes]

\* unpack the record that begins at byte off of block
decode(block, off) ==
    [size |-> read_u32(block, off + 0),
     owner_id |-> read_u16(block, off + 4),
     permissions |-> read_u8(block, off + 6),
     flags |-> read_u8(block, off + 7),
     link_count |-> read_u8(block, off + 8),
     block_ptr |-> [i \in PtrIndex |-> read_u16(block, off + 9 + 2 * (i - 1))]]

RECURSIVE pack_ptrs(_, _, _, _)
pack_ptrs(block, off, ptrs, i) ==
    IF i > INODE_PTR_COUNT THEN block
    ELSE pack_ptrs(write_u16(block, off + 9 + 2 * (i - 1), ptrs[i]),
                   off, ptrs, i + 1)

\* encode that packs the block pointers one byte apart
encode_ptr_stride_1(block, off, in) ==
    LET b0 == write_u32(block, off + 0, in.size)
        b1 == write_u16(b0, off + 4, in.owner_id)
        b2 == write_u8(b1, off + 6, in.permissions)
        b3 == write_u8(b2, off + 7, in.flags)
        b4 == write_u8(b3, off + 8, in.link_count)
        RECURSIVE pack(_, _)
        pack(b, i) ==
            IF i > INODE_PTR_COUNT THEN b
            ELSE pack(write_u16(b, off + 9 + (i - 1), in.block_ptr[i]), i + 1)
    IN  pack(b4, 1)

\* pack the on-disk fields of in into block at byte off
encode(block, off, in) ==
    LET b0 == write_u32(block, off + 0, in.size)
        b1 == write_u16(b0, off + 4, in.owner_id)
        b2 == write_u8(b1, off + 6, in.permissions)
        b3 == write_u8(b2, off + 7, in.flags)
        b4 == write_u8(b3, off + 8, in.link_count)
    IN  pack_ptrs(b4, off, in.block_ptr, 1)

\* read_inode(in, inode_num): the struct after the call
read_inode(d, in, inode_num) ==
    LET at == locate(inode_num)
        block == bread(d, at.block_num, ZeroBlock, BLOCK_SIZE)
        r == decode(block, at.block_offset_bytes)
    IN  [in EXCEPT !.size = r.size, !.owner_id = r.owner_id,
                   !.permissions = r.permissions, !.flags = r.flags,
                   !.link_count = r.link_count, !.block_ptr = r.block_ptr]

\* write_inode(in): the image after the call
\* a write_inode that packs the inode into an empty buffer: it does not read
\* the block first
write_inode_no_read(d, in) ==
    LET at == locate(in.inode_num)
    IN  bwrite(d, at.block_num, encode(ZeroBlock, at.block_offset_bytes, in),
               BLOCK_SIZE)

write_inode(d, in) ==
    LET at == locate(in.inode_num)
        block == bread(d, at.block_num, ZeroBlock, BLOCK_SIZE)
    IN  bwrite(d, at.block_num, encode(block, at.block_offset_bytes, in),
               BLOCK_SIZE)

----------------------------------------------------------------------------
(* inode.c: iget, iput *)

\* iget that never looks for the inode in core: every call loads a free slot
iget_always_load(inc, d, inode_num) ==
    LET free == find_incore_free(inc)
    IN  IF free = NULL
        THEN [incore |-> inc, ret |-> NULL, io |-> << >>]
        ELSE [incore |-> [inc EXCEPT
                  ![free] = [read_inode(d, inc[free], inode_num)
                                EXCEPT !.ref_count = 1,
                                       !.inode_num = inode_num]],
              ret |-> free,
              io |-> << <<"bread", locate(inode_num).block_num>> >>]

\* an iget that reads the inode from disk again when it is already in core
iget_reload_on_hit(inc, d, inode_num) ==
    LET found == find_incore(inc, inode_num)
        free == find_incore_free(inc)
    IN  IF found # NULL
        THEN [incore |-> [inc EXCEPT
                  ![found] = [read_inode(d, inc[found], inode_num)
                                 EXCEPT !.ref_count = @ + 1]],
              ret |-> found,
              io |-> << <<"bread", locate(inode_num).block_num>> >>]
        ELSE IF free = NULL
        THEN [incore |-> inc, ret |-> NULL, io |-> << >>]
        ELSE [incore |-> [inc EXCEPT
                  ![free] = [read_inode(d, inc[free], inode_num)
                                EXCEPT !.ref_count = 1,
                                       !.inode_num = inode_num]],
              ret |-> free,
              io |-> << <<"bread", locate(inode_num).block_num>> >>]

\* iget(inode_num): the pool after the call, the slot returned (or NULL)
\* and the block I/O performed
iget(inc, d, inode_num) ==
    LET found == find_incore(inc, inode_num)
        free == find_incore_free(inc)
    IN  IF found # NULL
        THEN [incore |-> [inc EXCEPT ![found].ref_count = @ + 1],
              ret |-> found, io |-> << >>]
        ELSE IF free = NULL
        THEN [incore |-> inc, ret |-> NULL, io |-> << >>]
        ELSE [incore |-> [inc EXCEPT
                  ![free] = [read_inode(d, inc[free], inode_num)
                                EXCEPT !.ref_count = 1,
                                       !.inode_num = inode_num]],
              ret |-> free,
              io |-> << <<"bread", locate(inode_num).block_num>> >>]

\* iput that never saves the inode
iput_no_flush(inc, d, i) ==
    IF inc[i].ref_count = 0
    THEN [incore |-> inc, disk |-> d, io |-> << >>]
    ELSE [incore |-> [inc EXCEPT ![i].ref_count = @ - 1], disk |-> d,
          io |-> << >>]

\* iput without the test for a reference count that is already 0: the
\* unsigned count wraps
iput_no_guard(inc, d, i) ==
    LET dec == [inc EXCEPT
                  ![i].ref_count = IF @ = 0 THEN MaxUInt ELSE @ - 1]
    IN  IF dec[i].ref_count = 0
        THEN [incore |-> dec, disk |-> write_inode(d, dec[i]),
              io |-> << <<"bread", locate(dec[i].inode_num).block_num>>,
                        <<"bwrite", locate(dec[i].inode_num).block_num>> >>]
        ELSE [incore |-> dec, disk |-> d, io |-> << >>]

\* an iput that saves the inode at every release, not at the last one only
iput_flush_every(inc, d, i) ==
    IF inc[i].ref_count = 0
    THEN [incore |-> inc, disk |-> d, io |-> << >>]
    ELSE LET dec == [inc EXCEPT ![i].ref_count = @ - 1]
         IN  [incore |-> dec, disk |-> write_inode(d, dec[i]),
              io |-> << <<"bread", locate(dec[i].inode_num).block_num>>,
                        <<"bwrite", locate(dec[i].inode_num).block_num>> >>]

\* an iput that also marks the inode free in the inode map at the last
\* release
iput_frees_inode(inc, d, i) ==
    IF inc[i].ref_count = 0
    THEN [incore |-> inc, disk |-> d, io |-> << >>]
    ELSE LET dec == [inc EXCEPT ![i].ref_count = @ - 1]
             saved == write_inode(d, dec[i])
         IN  IF dec[i].ref_count = 0
             THEN [incore |-> dec,
                   disk |-> bwrite(saved, FREE_INODE_BLOCK_NUM,
                                   set_free(BlockAt(saved, FREE_INODE_BLOCK_NUM),
                                            dec[i].inode_num, 0),
                                   BLOCK_SIZE),
                   io |-> << <<"bread", locate(dec[i].inode_num).block_num>>,
                             <<"bwrite", locate(dec[i].inode_num).block_num>> >>]
             ELSE [incore |-> dec, disk |-> d, io |-> << >>]

\* iput(in), in = &incore[i]: the pool and the image after the call and the
\* block I/O performed
iput(inc, d, i) ==
    IF inc[i].ref_count = 0
    THEN [incore |-> inc, disk |-> d, io |-> << >>]
    ELSE LET dec == [inc EXCEPT ![i].ref_count = @ - 1]
         IN  IF dec[i].ref_count = 0
             THEN [incore |-> dec, disk |-> write_inode(d, dec[i]),
                   io |-> << <<"bread", locate(dec[i].inode_num).block_num>>,
                             <<"bwrite", locate(dec[i].inode_num).block_num>> >>]
             ELSE [incore |-> dec, disk |-> d, io |-> << >>]

----------------------------------------------------------------------------
(* Callers: what the holder of a handle stores through it *)

Stamps == {1, 2}

\* field values a holder stores: stamp 1 has a different value in every
\* byte, stamp 2 is near the top of every field's range
Contents(inode_num, stamp) ==
    IF stamp = 1
    THEN [size |-> 16909060 + inode_num, owner_id |-> 1286 + inode_num,
          permissions |-> 7, flags |-> 2,
          link_count |-> (1 + inode_num) % U8,
          block_ptr |-> [i \in PtrIndex |-> 2560 + 257 * i + inode_num]]
    ELSE [size |-> MaxUInt - inode_num, owner_id |-> U16 - 1 - inode_num,
          permissions |-> U8 - 1, flags |-> U8 - 1,
          link_count |-> U8 - 1 - inode_num,
          block_ptr |-> [i \in PtrIndex |-> U16 - i - inode_num]]

\* in->size = ...; in->block_ptr[k] = ...; through a handle iget returned
\* (an assignment to an unsigned short or unsigned char field keeps the
\* value modulo the field's width)
store(in, c) ==
    [in EXCEPT !.size = c.size, !.owner_id = c.owner_id % U16,
               !.permissions = c.permissions % U8, !.flags = c.flags % U8,
               !.link_count = c.link_count % U8,
               !.block_ptr = [i \in PtrIndex |-> c.block_ptr[i] % U16]]

----------------------------------------------------------------------------
(* The state machine *)

\* whether a call with this trace of block I/O wrote a block
Wrote(trace) == \E k \in DOMAIN trace : trace[k][1] = "bwrite"

InodeBlocks == {locate(n).block_num : n \in Inums}

\* a bitmap block in which every inode is allocated but number 10 and the
\* last one of the block
NearlyFullMap ==
    Put(Put(Filled(U8 - 1), 1, U8 - 5), BLOCK_SIZE - 1, (U8 \div 2) - 1)

\* a bitmap block in which the inodes of the inode table, and no others, are
\* allocated: the map after INODE_BLOCKS * INODES_PER_BLOCK calls of ialloc
\* on a fresh image
TableFullMap ==
    [fill |-> 0,
     at |-> [o \in 0 .. ((INODE_BLOCKS * INODES_PER_BLOCK) \div 8 - 1)
               |-> U8 - 1]]

\* an image with inode_map as its inode bitmap block and zeroed inode
\* blocks but for the record of inode 1, which an earlier run has written
Image(inode_map) ==
    [b \in {FREE_INODE_BLOCK_NUM} \cup InodeBlocks |->
        IF b = FREE_INODE_BLOCK_NUM THEN inode_map
        ELSE IF b = locate(1).block_num
        THEN encode(ZeroBlock, locate(1).block_offset_bytes, Contents(1, 2))
        ELSE ZeroBlock]

\* the callers that may be inside ialloc at once
MaxProcs == 2
Procs == 1 .. MaxProcs

\* no caller is inside ialloc
NoRace ==
    [pc |-> [p \in Procs |-> "idle"],
     inode_map |-> [p \in Procs |-> ZeroBlock],
     stale |-> [p \in Procs |-> FALSE],
     log |-> << >>]

\* the state at start-up on image d: the pool is zero-initialised
Start(d) ==
    /\ disk = d
    /\ incore = [i \in Slots |-> ZeroInode]
    /\ op = "init"
    /\ arg = 0
    /\ ret = 0
    /\ io = << >>
    /\ fault = FALSE
    /\ allocated = << >>
    /\ held = [n \in Inums |-> 0]
    /\ flushed = [n \in Inums |->
                    decode(BlockAt(d, locate(n).block_num),
                           locate(n).block_offset_bytes)]
    /\ race = NoRace

\* a freshly formatted image: no inode allocated
Init == Start(Image(ZeroBlock))

\* a fresh image, or one whose inode bitmap is nearly full
InitAlloc == \E inode_map \in {ZeroBlock, NearlyFullMap} : Start(Image(inode_map))

Ialloc ==
    /\ IF find_free(BlockAt(disk, FREE_INODE_BLOCK_NUM)) = 0 - 1 THEN TRUE
       ELSE Len(allocated) < MaxAlloc
    /\ LET r == ialloc(disk, ZeroBlock, BLOCK_SIZE, BLOCK_SIZE)
       IN  /\ disk' = r.disk
           /\ ret' = r.ret
           /\ io' = r.io
           /\ allocated' = IF r.ret = 0 - 1 THEN allocated
                           ELSE Append(allocated, r.ret)
    /\ op' = "ialloc"
    /\ arg' = 0
    /\ fault' = FALSE
    /\ UNCHANGED <<incore, held, flushed, race>>

Iget(n) ==
    LET r == iget(incore, disk, n)
    IN  /\ IF r.ret = NULL THEN TRUE
           ELSE r.incore[r.ret].ref_count <= MaxRef
        /\ incore' = r.incore
        /\ ret' = r.ret
        /\ io' = r.io
        /\ held' = IF r.ret = NULL THEN held ELSE [held EXCEPT ![n] = @ + 1]
        /\ op' = "iget"
        /\ arg' = n
        /\ fault' = FALSE
        /\ UNCHANGED <<disk, allocated, flushed, race>>

Iput(i) ==
    LET r == iput(incore, disk, i)
    IN  /\ incore' = r.incore
        /\ disk' = r.disk
        /\ io' = r.io
        /\ op' = "iput"
        /\ arg' = i
        /\ ret' = 0
        /\ held' = IF incore[i].ref_count = 0 THEN held
                    ELSE [held EXCEPT ![incore[i].inode_num] = @ - 1]
        /\ flushed' = IF incore[i].ref_count = 1
                       THEN [n \in DOMAIN flushed |->
                               IF n = incore[i].inode_num
                               THEN OnDisk(incore[i]) ELSE flushed[n]]
                       ELSE flushed
        /\ fault' = FALSE
        /\ UNCHANGED <<allocated, race>>

Store(i, s) ==
    /\ incore[i].ref_count > 0
    /\ incore' = [incore EXCEPT
                    ![i] = store(@, Contents(incore[i].inode_num, s))]
    /\ op' = "store"
    /\ arg' = i
    /\ ret' = 0
    /\ io' = << >>
    /\ fault' = FALSE
    /\ UNCHANGED <<disk, allocated, held, flushed, race>>

Next ==
    \/ Ialloc
    \/ \E n \in Inums : Iget(n)
    \/ \E i \in Slots : Iput(i)
    \/ \E i \in Slots : Store(i, 1)

\* every interleaving of the calls and of the holders' stores
Spec == Init /\ [][Next]_vars

\* the in-core cache alone: iget, iput and the holders' stores
NextCache ==
    \/ \E n \in Inums : Iget(n)
    \/ \E i \in Slots : Iput(i)
    \/ \E i \in Slots : Store(i, 1)

SpecCache == Init /\ [][NextCache]_vars

\* the allocator among the cache calls, with holders that store nothing
NextAlloc ==
    \/ Ialloc
    \/ \E n \in Inums : Iget(n)
    \/ \E i \in Slots : Iput(i)

SpecAlloc == InitAlloc /\ [][NextAlloc]_vars

\* the same calls on an image whose inode table is in use to the last inode
InitTableFull == Start(Image(TableFullMap))

SpecTableFull == InitTableFull /\ [][NextAlloc]_vars

----------------------------------------------------------------------------
(* ialloc on an image whose transfers can fail *)

\* what the stack holds where ialloc puts inode_map: any bytes; two cases
StackGarbage == {ZeroBlock, Filled(U8 - 1)}

\* bytes one read() or write() of a block transfers: none (an error, or end
\* of file), a few, or all of them
Transfers == {0, 2, BLOCK_SIZE}

IallocIO(stack, nread, nwritten) ==
    /\ Len(allocated) < MaxAlloc
    /\ LET r == ialloc(disk, stack, nread, nwritten)
       IN  /\ disk' = r.disk
           /\ ret' = r.ret
           /\ io' = r.io
           /\ fault' = (nread < BLOCK_SIZE
                          \/ (Wrote(r.io) /\ nwritten < BLOCK_SIZE))
           /\ allocated' = IF r.ret = 0 - 1 THEN allocated
                           ELSE Append(allocated, r.ret)
    /\ op' = "ialloc"
    /\ arg' = 0
    /\ UNCHANGED <<incore, held, flushed, race>>

NextIO ==
    \/ \E stack \in StackGarbage, nread \in Transfers, nwritten \in Transfers :
          IallocIO(stack, nread, nwritten)
    \/ \E n \in Inums : Iget(n)
    \/ \E i \in Slots : Iput(i)

SpecIO == Init /\ [][NextIO]_vars

----------------------------------------------------------------------------
(* ialloc called by callers that run at once: an invocation is two steps,  *)
(* its bread and the rest, and steps of different invocations interleave   *)

\* the invocations that are between their bread and their bwrite
Reading == {p \in Procs : race.pc[p] = "read"}

\* p enters ialloc: bread fills its inode_map
IallocRead(p) ==
    /\ race.pc[p] = "idle"
    /\ Len(race.log) + Cardinality(Reading) < MaxAlloc + MaxProcs
    /\ race' = [race EXCEPT
                  !.pc[p] = "read",
                  !.inode_map[p] =
                      bread(disk, FREE_INODE_BLOCK_NUM, ZeroBlock, BLOCK_SIZE),
                  !.stale[p] = FALSE]
    /\ op' = "ialloc_read"
    /\ arg' = p
    /\ ret' = 0
    /\ io' = << <<"bread", FREE_INODE_BLOCK_NUM>> >>
    /\ fault' = FALSE
    /\ UNCHANGED <<disk, incore, allocated, held, flushed>>

\* p runs the rest of ialloc on its inode_map and returns; the map of an
\* invocation that is still reading is stale once p has written the block
IallocFinish(p) ==
    /\ race.pc[p] = "read"
    /\ LET r == ialloc_after_read(disk, race.inode_map[p], BLOCK_SIZE)
       IN  /\ disk' = r.disk
           /\ ret' = r.ret
           /\ io' = r.io
           /\ allocated' = IF r.ret = 0 - 1 THEN allocated
                           ELSE Append(allocated, r.ret)
           /\ race' = [pc |-> [race.pc EXCEPT ![p] = "idle"],
                       inode_map |-> [race.inode_map EXCEPT ![p] = ZeroBlock],
                       stale |-> [q \in Procs |->
                                    IF q # p /\ q \in Reading /\ Wrote(r.io)
                                    THEN TRUE
                                    ELSE IF q = p THEN FALSE
                                    ELSE race.stale[q]],
                       log |-> Append(race.log,
                                      [proc |-> p, ret |-> r.ret,
                                       stale |-> race.stale[p]])]
    /\ op' = "ialloc"
    /\ arg' = p
    /\ fault' = FALSE
    /\ UNCHANGED <<incore, held, flushed>>

NextRace ==
    \/ \E p \in Procs : IallocRead(p)
    \/ \E p \in Procs : IallocFinish(p)

SpecRace == InitAlloc /\ [][NextRace]_vars

----------------------------------------------------------------------------
(* read_inode and write_inode called on a struct inode of the caller *)

\* inode numbers at the ends of an inode block and of the inode table
CodecInums ==
    {0, 1, INODES_PER_BLOCK - 1, INODES_PER_BLOCK, 4 * INODES_PER_BLOCK - 1}

\* the caller's struct is incore[0]
Fill(n, s, refs) ==
    /\ incore' = [incore EXCEPT
                    ![0] = [store(@, Contents(n, s))
                                EXCEPT !.inode_num = n, !.ref_count = refs]]
    /\ op' = "fill"
    /\ arg' = n
    /\ ret' = 0
    /\ io' = << >>
    /\ fault' = FALSE
    /\ UNCHANGED <<disk, allocated, held, flushed, race>>

WriteInode ==
    /\ op = "fill"
    /\ disk' = write_inode(disk, incore[0])
    /\ op' = "write_inode"
    /\ arg' = incore[0].inode_num
    /\ ret' = 0
    /\ io' = << <<"bread", locate(incore[0].inode_num).block_num>>,
                <<"bwrite", locate(incore[0].inode_num).block_num>> >>
    /\ fault' = FALSE
    /\ UNCHANGED <<incore, allocated, held, flushed, race>>

ReadInode(n) ==
    /\ op = "write_inode"
    /\ incore' = [incore EXCEPT ![0] = read_inode(disk, @, n)]
    /\ op' = "read_inode"
    /\ arg' = n
    /\ ret' = 0
    /\ io' = << <<"bread", locate(n).block_num>> >>
    /\ fault' = FALSE
    /\ UNCHANGED <<disk, allocated, held, flushed, race>>

NextCodec ==
    \/ \E n \in CodecInums, s \in Stamps, refs \in 0 .. MaxRef : Fill(n, s, refs)
    \/ WriteInode
    \/ \E n \in CodecInums : ReadInode(n)

SpecCodec == Init /\ [][NextCodec]_vars

----------------------------------------------------------------------------
(* Properties *)

\* the on-disk record of inode number n in image d
RecordAt(d, n) ==
    decode(BlockAt(d, locate(n).block_num), locate(n).block_offset_bytes)

\* bit j of a bitmap block, lowest bit of lowest byte first
Bit(block, j) == (Byte(block, j \div 8) \div Pow2(j % 8)) % 2

\* C1: in every state reached by iget and iput calls from the zero-initialised
\* pool, no two slots with a reference count above 0 hold the same inode
\* number.
C1_OneSlotPerInode ==
    \A i, j \in Slots :
        (i # j /\ incore[i].ref_count > 0 /\ incore[j].ref_count > 0)
            => incore[i].inode_num # incore[j].inode_num

\* two slots are in use at once, one of them shared by two openers
C1_Witness ==
    \E i, j \in Slots :
        /\ i # j
        /\ incore[i].ref_count = 2
        /\ incore[j].ref_count > 0

\* C2: a successful iget(n) that directly follows a successful iget(n)
\* returns the same slot, with a reference count one above the count after
\* the first call; the count is 2 when the first call loaded a free slot.
C2_SecondIgetShares ==
    [][\A n \in Inums :
          (/\ op = "iget" /\ arg = n /\ ret # NULL
           /\ op' = "iget" /\ arg' = n /\ ret' # NULL)
          => /\ ret' = ret
             /\ incore'[ret'].ref_count = incore[ret].ref_count + 1
             /\ (io # << >> => incore'[ret'].ref_count = 2)]_vars

\* iget(n) has just returned a slot for the second time in a row
C2_Witness ==
    /\ op = "iget"
    /\ ret # NULL
    /\ io = << >>
    /\ incore[ret].ref_count = 2
    /\ held[arg] = 2

\* C3: the iput that brings the number of iput calls on inode n's slot up to
\* the number of successful iget(n) calls leaves the slot with reference
\* count 0, and the record of n on disk, at the block and offset of
\* locate(n), then equals the on-disk fields the slot had just before it.
C3_LastIputFlushes ==
    [][\A i \in Slots :
          LET n == incore[i].inode_num
          IN  (/\ op' = "iput" /\ arg' = i
               /\ incore[i].ref_count > 0
               /\ n \in Inums /\ held[n] > 0 /\ held'[n] = 0)
              => /\ incore'[i].ref_count = 0
                 /\ RecordAt(disk', n) = OnDisk(incore[i])
                 /\ OnDisk(incore'[i]) = OnDisk(incore[i])]_vars

\* the last iput of a slot has just written a record that a holder had
\* changed
C3_Witness ==
    /\ op = "iput"
    /\ Wrote(io)
    /\ incore[arg].ref_count = 0
    /\ held[incore[arg].inode_num] = 0
    /\ RecordAt(disk, incore[arg].inode_num)
          = Contents(incore[arg].inode_num, 1)

\* C4: iput on a slot whose reference count is 0 changes neither the pool
\* (the count stays 0) nor the image, and performs no block I/O.
C4_IputOnFreeIsNoOp ==
    [][\A i \in Slots :
          (op' = "iput" /\ arg' = i /\ incore[i].ref_count = 0)
          => /\ incore' = incore
             /\ incore'[i].ref_count = 0
             /\ disk' = disk
             /\ io' = << >>]_vars

\* iput has just been called on a free slot whose stale record differs from
\* the one on disk
C4_Witness ==
    /\ op = "iput"
    /\ io = << >>
    /\ incore[arg].ref_count = 0
    /\ incore[arg].inode_num \in Inums
    /\ RecordAt(disk, incore[arg].inode_num) # OnDisk(incore[arg])

\* C5: no two successful ialloc calls of a run return the same inode number.
C5_DistinctAllocations ==
    \A j, k \in DOMAIN allocated :
        j # k => allocated[j] # allocated[k]

\* two inode numbers have been allocated, with iget calls in between
C5_Witness ==
    /\ Len(allocated) = 2
    /\ op = "ialloc"
    /\ \E i \in Slots : incore[i].ref_count > 0

\* C6: when the bitmap block has a 0 bit, ialloc returns the index of its
\* lowest 0 bit; on the all-zero bitmap the first call returns 0 and the
\* second returns 1.
C6_LowestFreeBit ==
    [][op' = "ialloc" =>
          LET inode_map == BlockAt(disk, FREE_INODE_BLOCK_NUM)
          IN  /\ (\E o \in Offsets : Byte(inode_map, o) # U8 - 1)
                    => ret' # 0 - 1
              /\ ret' # 0 - 1 =>
                    /\ Bit(inode_map, ret') = 0
                    /\ \A j \in 0 .. (ret' - 1) : Bit(inode_map, j) = 1
              /\ inode_map = ZeroBlock => ret' = 0
              /\ (inode_map = set_free(ZeroBlock, 0, 1)) => ret' = 1]_vars

\* the second ialloc on the fresh image has returned 1
C6_Witness ==
    /\ op = "ialloc"
    /\ ret = 1
    /\ allocated = <<0, 1>>

\* C7: when every bit of the bitmap block is 1, ialloc returns -1, writes no
\* block and leaves the image and the pool as they were.
C7_ExhaustedBitmap ==
    [][(/\ op' = "ialloc"
        /\ \A o \in Offsets :
              Byte(BlockAt(disk, FREE_INODE_BLOCK_NUM), o) = U8 - 1)
       => /\ ret' = 0 - 1
          /\ ~Wrote(io')
          /\ disk' = disk
          /\ incore' = incore]_vars

\* ialloc has just failed on a bitmap that earlier calls filled up
C7_Witness ==
    /\ op = "ialloc"
    /\ ret = 0 - 1
    /\ Len(allocated) = 2

\* C8: when every slot is in use and none holds inode number n, iget(n)
\* returns NULL, performs no block I/O and leaves the pool and the image as
\* they were.
C8_PoolExhausted ==
    [][\A n \in Inums :
          (/\ op' = "iget" /\ arg' = n
           /\ \A i \in Slots :
                 incore[i].ref_count > 0 /\ incore[i].inode_num # n)
          => /\ ret' = NULL
             /\ io' = << >>
             /\ incore' = incore
             /\ disk' = disk]_vars

\* iget has just failed for want of a free slot
C8_Witness ==
    /\ op = "iget"
    /\ ret = NULL
    /\ \A i \in Slots : incore[i].ref_count > 0

\* C9: an ialloc during which read() or write() did not transfer a full
\* block does not return as a success: it returns no inode number.
C9_FaultSurfaced ==
    (op = "ialloc" /\ fault) => ret < 0

\* C10: write_inode followed by decoding at the same block and offset gives
\* back the on-disk fields of the struct; the bytes written do not depend on
\* ref_count and inode_num, and end with the last block pointer.
C10_RoundTrip ==
    [][op' = "write_inode" =>
          LET in == incore[0]
              at == locate(in.inode_num)
              old == BlockAt(disk, at.block_num)
              new == BlockAt(disk', at.block_num)
          IN  /\ decode(new, at.block_offset_bytes) = OnDisk(in)
              /\ new = encode(old, at.block_offset_bytes,
                              [in EXCEPT !.ref_count = 0, !.inode_num = 0])
              /\ \A k \in (9 + 2 * INODE_PTR_COUNT) .. (INODE_SIZE - 1) :
                    Byte(new, at.block_offset_bytes + k)
                        = Byte(old, at.block_offset_bytes + k)]_vars

\* a struct with values near the top of every field has been written to the
\* last inode of a block, over a record written before, and read back
C10_Witness ==
    /\ op = "read_inode"
    /\ arg = INODES_PER_BLOCK - 1
    /\ incore[0].inode_num = arg
    /\ incore[0].ref_count = MaxRef
    /\ OnDisk(incore[0]) = Contents(arg, 2)
    /\ RecordAt(disk, arg) = Contents(arg, 2)
    /\ RecordAt(disk, 0) = Contents(0, 1)

\* the inode numbers of the inode table
ValidInums == 0 .. (INODE_BLOCKS * INODES_PER_BLOCK - 1)

\* C11: the record that read_inode or write_inode is sent to for a valid
\* inode number lies in one of the inode blocks and wholly inside that block,
\* and no other valid inode number is mapped to the same (block, offset) pair
\* or to a record that shares a byte with it.
C11_RecordsDisjoint ==
    (op \in {"write_inode", "read_inode"} /\ arg \in ValidInums) =>
        LET a == locate(arg)
        IN  /\ a.block_num \in
                  INODE_FIRST_BLOCK .. (INODE_FIRST_BLOCK + INODE_BLOCKS - 1)
            /\ a.block_offset_bytes >= 0
            /\ a.block_offset_bytes + INODE_SIZE <= BLOCK_SIZE
            /\ \A m \in ValidInums \ {arg} :
                  LET b == locate(m)
                  IN  /\ b # a
                      /\ b.block_num = a.block_num =>
                            \/ b.block_offset_bytes + INODE_SIZE
                                  <= a.block_offset_bytes
                            \/ a.block_offset_bytes + INODE_SIZE
                                  <= b.block_offset_bytes

\* the last record of the inode table has been written: it ends with the
\* last byte of the last inode block
C11_Witness ==
    /\ op = "write_inode"
    /\ arg = INODE_BLOCKS * INODES_PER_BLOCK - 1
    /\ locate(arg).block_offset_bytes + INODE_SIZE = BLOCK_SIZE
    /\ RecordAt(disk, arg) = OnDisk(incore[0])
    /\ RecordAt(disk, arg) # OnDisk(ZeroInode)

\* C12: no call of ialloc, iget or iput takes a bit of the on-disk inode
\* bitmap from 1 to 0, and the bits that are 1 after a call are those that
\* were 1 before it and the bit whose index the call returned, if it is a
\* successful ialloc; so a bit is 1 exactly when it was 1 in the initial
\* image or a successful ialloc returned its index.
C12_BitmapMonotone ==
    [][LET old == BlockAt(disk, FREE_INODE_BLOCK_NUM)
           new == BlockAt(disk', FREE_INODE_BLOCK_NUM)
           got == IF op' = "ialloc" /\ ret' # 0 - 1 THEN {ret'} ELSE {}
       IN  /\ got = {} => new = old
           /\ \A k \in got :
                 \* the bytes but the one that holds bit k
                 /\ Put(new, k \div 8, 0) = Put(old, k \div 8, 0)
                 /\ \A j \in (8 * (k \div 8)) .. (8 * (k \div 8) + 7) :
                       Bit(new, j) = 1 <=> (Bit(old, j) = 1 \/ j = k)
      ]_vars

\* two inodes have been allocated on the nearly full bitmap, their bits are
\* 1, and a last iput has since written an inode block
C12_Witness ==
    /\ Len(allocated) = 2
    /\ allocated[1] # 0
    /\ \A k \in DOMAIN allocated :
          Bit(BlockAt(disk, FREE_INODE_BLOCK_NUM), allocated[k]) = 1
    /\ op = "iput"
    /\ Wrote(io)

\* C13: an iget(n) called while a slot in use holds n returns that slot,
\* reads and writes no block, leaves the image alone and changes nothing in
\* the pool but that slot's reference count, which goes up by 1: the record
\* the slot holds, with what its earlier holder stored in it, stays.
C13_HitTouchesOnlyCount ==
    [][(op' = "iget"
          /\ \E i \in Slots :
                incore[i].ref_count > 0 /\ incore[i].inode_num = arg')
        => \E i \in Slots :
              /\ incore[i].ref_count > 0
              /\ incore[i].inode_num = arg'
              /\ ret' = i
              /\ io' = << >>
              /\ disk' = disk
              /\ incore' = [incore EXCEPT ![i].ref_count = incore[i].ref_count + 1]
      ]_vars

\* a second iget has returned a slot whose holder had stored into it: the
\* slot still differs from the record on disk
C13_Witness ==
    /\ op = "iget"
    /\ ret # NULL
    /\ io = << >>
    /\ IF ret = NULL THEN FALSE
       ELSE /\ incore[ret].ref_count = 2
            /\ OnDisk(incore[ret]) = Contents(arg, 1)
            /\ OnDisk(incore[ret]) # RecordAt(disk, arg)

\* C14: the image is written only by an iput that takes a slot's reference
\* count from 1 to 0, and that iput writes the record of the slot's inode
\* and no other inode's; it writes whether or not the holders changed the
\* slot. An iput that leaves the count above 0 writes nothing, iget writes
\* nothing, and a holder's store into a slot leaves the image as it was.
C14_OnlyLastIputWrites ==
    [][/\ (disk' # disk \/ Wrote(io')) =>
             /\ op' = "iput"
             /\ incore[arg'].ref_count = 1
             /\ incore'[arg'].ref_count = 0
             /\ \A n \in Inums \ {incore[arg'].inode_num} :
                   RecordAt(disk', n) = RecordAt(disk, n)
       /\ (op' = "iput" /\ incore[arg'].ref_count = 1) =>
             /\ Wrote(io')
             /\ RecordAt(disk', incore[arg'].inode_num) = OnDisk(incore[arg'])
       /\ (op' = "iput" /\ incore[arg'].ref_count # 1) =>
             (io' = << >> /\ disk' = disk)
       /\ op' \in {"iget", "store"} => (disk' = disk /\ ~Wrote(io'))
      ]_vars

\* an iput has left a count of 1 on a slot its holders stored into and has
\* written nothing: the record on disk is still the old one
C14_Witness ==
    /\ op = "iput"
    /\ io = << >>
    /\ incore[arg].ref_count = 1
    /\ OnDisk(incore[arg]) = Contents(incore[arg].inode_num, 1)
    /\ RecordAt(disk, incore[arg].inode_num) # OnDisk(incore[arg])

\* the offsets at which blocks a and b hold different bytes
Differ(a, b) ==
    IF a.fill = b.fill
    THEN {o \in DOMAIN a.at \cup DOMAIN b.at : Byte(a, o) # Byte(b, o)}
    ELSE {o \in Offsets : Byte(a, o) # Byte(b, o)}

\* C15: write_inode for inode number n leaves every block but the one that
\* holds n's record as it was, and in that block every byte outside the
\* INODE_SIZE bytes of n's record.
C15_WriteInodeFrame ==
    [][op' = "write_inode" =>
         LET a == locate(arg')
         IN  /\ \A b \in (DOMAIN disk \cup DOMAIN disk') \ {a.block_num} :
                   BlockAt(disk', b) = BlockAt(disk, b)
             /\ Differ(BlockAt(disk', a.block_num), BlockAt(disk, a.block_num))
                   \subseteq a.block_offset_bytes
                                .. (a.block_offset_bytes + INODE_SIZE - 1)
      ]_vars

\* inode 0 has been written into the block in which inode 1 was written
\* before: both records are on disk
C15_Witness ==
    /\ op = "write_inode"
    /\ arg = 0
    /\ RecordAt(disk, 0) = Contents(0, 1)
    /\ RecordAt(disk, 1) = Contents(1, 2)

\* C16: when ialloc returns k, bit k of the inode bitmap on disk was 0
\* before the call and is 1 after it, every other bit of the bitmap block is
\* as before, ialloc wrote no block but the bitmap block, and every other
\* block of the image is as before.
C16_IallocSetsOneBit ==
    [][(op' = "ialloc" /\ ret' # 0 - 1) =>
         LET old == BlockAt(disk, FREE_INODE_BLOCK_NUM)
             new == BlockAt(disk', FREE_INODE_BLOCK_NUM)
         IN  /\ Bit(old, ret') = 0
             /\ Bit(new, ret') = 1
             /\ Differ(new, old) = {ret' \div 8}
             /\ Byte(new, ret' \div 8)
                   = Byte(old, ret' \div 8) + Pow2(ret' % 8)
             /\ \A k \in DOMAIN io' :
                   io'[k][1] = "bwrite" => io'[k][2] = FREE_INODE_BLOCK_NUM
             /\ Wrote(io')
             /\ \A b \in (DOMAIN disk \cup DOMAIN disk')
                            \ {FREE_INODE_BLOCK_NUM} :
                   BlockAt(disk', b) = BlockAt(disk, b)
      ]_vars

\* ialloc has returned the last bit of the nearly full bitmap while a slot
\* is held: the bitmap is all ones, the inode block kept its record
C16_Witness ==
    /\ op = "ialloc"
    /\ ret = 8 * BLOCK_SIZE - 1
    /\ BlockAt(disk, FREE_INODE_BLOCK_NUM) = Filled(U8 - 1)
    /\ RecordAt(disk, 1) = Contents(1, 2)
    /\ \E n \in Inums : held[n] > 0

\* C17: an ialloc invocation returns an inode number that an earlier
\* invocation returned only if, after that earlier one, some invocation
\* finished on a stale map: another invocation had written the bitmap block
\* between its read of the block and its own write. Invocations that each
\* run from read to write with no write of another in between return
\* distinct numbers.
C17_DuplicateOnlyWhenInterleaved ==
    \A j, k \in DOMAIN race.log :
        (j < k /\ race.log[k].ret # 0 - 1
               /\ race.log[j].ret = race.log[k].ret)
            => \E m \in (j + 1) .. k : race.log[m].stale

\* two invocations that interleaved between read and write have returned
\* the same inode number
C17_Witness ==
    \E j, k \in DOMAIN race.log :
        /\ j < k
        /\ race.log[j].proc # race.log[k].proc
        /\ race.log[k].ret # 0 - 1
        /\ race.log[j].ret = race.log[k].ret
        /\ race.log[k].stale
        /\ Bit(BlockAt(disk, FREE_INODE_BLOCK_NUM), race.log[k].ret) = 1

\* C18: an iget(n) called while no slot in use holds n reads n's inode
\* block and fills the slot it returns with the on-disk fields that the last
\* releasing iput of n saved (those of the initial image if n was never
\* released), whatever other inodes, of the same block or not, were
\* acquired, stored into and released since.
C18_ReloadSeesLastFlush ==
    [][(/\ op' = "iget"
        /\ ret' # NULL
        /\ \A i \in Slots :
              incore[i].ref_count = 0 \/ incore[i].inode_num # arg')
        => /\ io' = << <<"bread", locate(arg').block_num>> >>
           /\ IF ret' = NULL THEN FALSE
              ELSE /\ OnDisk(incore'[ret']) = flushed[arg']
                   /\ incore'[ret'].ref_count = 1
                   /\ incore'[ret'].inode_num = arg'
      ]_vars

\* inode 1 has been loaded again after its holder stored into it and
\* released it, and after inode 0, of the same block, was stored into and
\* released: the slot holds what was saved for inode 1
C18_Witness ==
    /\ op = "iget"
    /\ arg = 1
    /\ ret # NULL
    /\ io # << >>
    /\ flushed[1] = Contents(1, 1)
    /\ flushed[0] = Contents(0, 1)
    /\ RecordAt(disk, 0) = Contents(0, 1)
    /\ IF ret = NULL THEN FALSE ELSE OnDisk(incore[ret]) = Contents(1, 1)

\* C19: every inode number ialloc has returned is an inode number of the
\* inode table: it is below INODE_BLOCKS * INODES_PER_BLOCK, and locate
\* sends it to one of the INODE_BLOCKS blocks from INODE_FIRST_BLOCK on,
\* inside the image.
C19_AllocatedInTable ==
    \A k \in DOMAIN allocated :
        /\ allocated[k] \in ValidInums
        /\ locate(allocated[k]).block_num \in
              INODE_FIRST_BLOCK .. (INODE_FIRST_BLOCK + INODE_BLOCKS - 1)
        /\ locate(allocated[k]).block_num < NUM_OF_BLOCKS

\* C20: an iget or an iput leaves the inode bitmap block as it was; an
\* ialloc leaves every slot of the pool and every block but the bitmap
\* block as it was; and one iget or iput changes the reference count, the
\* inode number or the contents of at most one slot, the one iget returns
\* or iput is passed.
C20_DisjointState ==
    [][/\ op' \in {"iget", "iput"} =>
             BlockAt(disk', FREE_INODE_BLOCK_NUM)
               = BlockAt(disk, FREE_INODE_BLOCK_NUM)
       /\ op' = "ialloc" =>
             /\ incore' = incore
             /\ \A b \in (DOMAIN disk \cup DOMAIN disk')
                            \ {FREE_INODE_BLOCK_NUM} :
                   BlockAt(disk', b) = BlockAt(disk, b)
       /\ op' = "iget" =>
             \A i \in Slots : i # ret' => incore'[i] = incore[i]
       /\ op' = "iput" =>
             \A i \in Slots : i # arg' => incore'[i] = incore[i]
      ]_vars

\* a last iput has written an inode block while another slot is shared by
\* two holders and two inodes are allocated: the bitmap holds their bits
C20_Witness ==
    /\ op = "iput"
    /\ Wrote(io)
    /\ incore[arg].ref_count = 0
    /\ \E j \in Slots \ {arg} : incore[j].ref_count = 2
    /\ Len(allocated) = 2
    /\ \A k \in DOMAIN allocated :
          Bit(BlockAt(disk, FREE_INODE_BLOCK_NUM), allocated[k]) = 1

====
